---------------------------- MODULE Spec2Model ----------------------------
(***************************************************************************)
(* Model of the wsl2 connection plugin (plugins/connection/wsl2.py):       *)
(* the Connection session, exec_command, put_file, fetch_file, close.      *)
(*                                                                         *)
(* Text (Python str) is a sequence of one-character strings; the one       *)
(* non-ASCII character of the model is the token "U+00E9".  Bytes are      *)
(* sequences of integers 0..255.  File descriptors are naturals.           *)
(***************************************************************************)
EXTENDS Integers, Sequences, FiniteSets, TLC

(***************************************************************************)
(* Bounds of the model.                                                    *)
(***************************************************************************)
\* Size of the descriptor table: descriptors are 0 .. MaxFd-1.
MaxFd == 7

(***************************************************************************)
(* Text, bytes and the conversions to_bytes / to_text (UTF-8).             *)
(***************************************************************************)
\* The printable ASCII characters, code 32 first (the grave accent, code 96,
\* is written as the token "U+0060").
Ascii ==
    <<" ","!","\"","#","$","%","&","'","(",")","*","+",",","-",".","/","0",
      "1","2","3","4","5","6","7","8","9",":",";","<","=",">","?","@","A",
      "B","C","D","E","F","G","H","I","J","K","L","M","N","O","P","Q","R",
      "S","T","U","V","W","X","Y","Z","[","\\","]","^","_","U+0060","a","b",
      "c","d","e","f","g","h","i","j","k","l","m","n","o","p","q","r","s",
      "t","u","v","w","x","y","z","{","|","}","~">>

\* The character with code point U+00E9, two bytes in UTF-8.
EAcute == "U+00E9"

Chars == {Ascii[i] : i \in 1..Len(Ascii)} \cup {"\n", EAcute}

\* UTF-8 encoding of one character.
Utf8 ==
    [c \in Chars |->
        IF c = "\n" THEN <<10>>
        ELSE IF c = EAcute THEN <<195, 169>>
        ELSE <<31 + (CHOOSE i \in 1..Len(Ascii) : Ascii[i] = c)>>]

\* to_bytes of a str: the UTF-8 encoding, character by character.  The
\* sequence is split in halves only to keep the recursion shallow.
RECURSIVE to_bytes(_)
to_bytes(s) ==
    IF Len(s) = 0 THEN <<>>
    ELSE IF Len(s) = 1 THEN Utf8[s[1]]
    ELSE LET h == Len(s) \div 2
         IN  to_bytes(SubSeq(s, 1, h)) \o to_bytes(SubSeq(s, h + 1, Len(s)))

\* to_text of bytes: UTF-8 decoding, defined on the encodings of Chars.
RECURSIVE decode_from(_, _)
decode_from(b, i) ==
    IF i > Len(b) THEN <<>>
    ELSE IF b[i] = 10 THEN <<"\n">> \o decode_from(b, i + 1)
    ELSE IF b[i] < 128 THEN <<Ascii[b[i] - 31]>> \o decode_from(b, i + 1)
    ELSE <<EAcute>> \o decode_from(b, i + 2)

to_text(b) == decode_from(b, 1)

\* str.rstrip("\n")
RECURSIVE rstrip_nl(_)
rstrip_nl(s) ==
    IF Len(s) > 0 /\ s[Len(s)] = "\n"
    THEN rstrip_nl(SubSeq(s, 1, Len(s) - 1))
    ELSE s

(***************************************************************************)
(* The two script templates and str.format with positional fields.         *)
(***************************************************************************)
ENTER_VM ==
    <<"\n","#"," ","$","W","a","r","n","i","n","g","P","r","e","f","e","r",
      "e","n","c","e"," ","="," ","'","S","i","l","e","n","t","l","y","C",
      "o","n","t","i","n","u","e","'","\n","$","s","e","c","p","a","s","s",
      " ","="," ","C","o","n","v","e","r","t","T","o","-","S","e","c","u",
      "r","e","S","t","r","i","n","g"," ","-","A","s","P","l","a","i","n",
      "T","e","x","t"," ","-","F","o","r","c","e"," ","-","S","t","r","i",
      "n","g"," ","'","{","2","}","'","\n","$","c","r","e","d"," ","="," ",
      "[","P","S","C","r","e","d","e","n","t","i","a","l","]",":",":","n",
      "e","w","(","'","{","1","}","'",","," ","$","s","e","c","p","a","s",
      "s",")","\n","$","e","x","e","c","_","w","r","a","p","p","e","r","_",
      "s","t","r"," ","="," ","$","i","n","p","u","t"," ","|"," ","O","u",
      "t","-","S","t","r","i","n","g","\n","$","c","m","d"," ","="," ","[",
      "S","c","r","i","p","t","B","l","o","c","k","]",":",":","C","r","e",
      "a","t","e","(","@","'","\n","{","3","}","\n","'","@",")","\n","$",
      "s"," ","="," ","N","e","w","-","P","S","S","e","s","s","i","o","n",
      " ","-","V","M","N","a","m","e"," ","'","{","0","}","'"," ","-","C",
      "r","e","d","e","n","t","i","a","l"," ","$","c","r","e","d","\n","I",
      "n","v","o","k","e","-","C","o","m","m","a","n","d"," ","-","S","e",
      "s","s","i","o","n"," ","$","s"," ","-","I","n","p","u","t","O","b",
      "j","e","c","t"," ","$","e","x","e","c","_","w","r","a","p","p","e",
      "r","_","s","t","r"," ","-","S","c","r","i","p","t","B","l","o","c",
      "k"," ","$","c","m","d","\n","$","s"," ","|"," ","R","e","m","o","v",
      "e","-","P","S","S","e","s","s","i","o","n","\n">>

COPY_FILE ==
    <<"\n","$","s","e","c","p","a","s","s"," ","="," ","C","o","n","v","e",
      "r","t","T","o","-","S","e","c","u","r","e","S","t","r","i","n","g",
      " ","-","A","s","P","l","a","i","n","T","e","x","t"," ","-","F","o",
      "r","c","e"," ","-","S","t","r","i","n","g"," ","'","{","2","}","'",
      "\n","$","c","r","e","d"," ","="," ","[","P","S","C","r","e","d","e",
      "n","t","i","a","l","]",":",":","n","e","w","(","'","{","1","}","'",
      ","," ","$","s","e","c","p","a","s","s",")","\n","$","s"," ","="," ",
      "N","e","w","-","P","S","S","e","s","s","i","o","n"," ","-","V","M",
      "N","a","m","e"," ","'","{","0","}","'"," ","-","C","r","e","d","e",
      "n","t","i","a","l"," ","$","c","r","e","d","\n","C","o","p","y","-",
      "I","t","e","m"," ","-","T","o","S","e","s","s","i","o","n"," ","$",
      "s"," ","-","P","a","t","h"," ","'","{","3","}","'"," ","-","D","e",
      "s","t","i","n","a","t","i","o","n"," ","'","{","4","}","'","\n","$",
      "s"," ","|"," ","R","e","m","o","v","e","-","P","S","S","e","s","s",
      "i","o","n","\n">>

DigitVal == [c \in {"0", "1", "2", "3", "4"} |->
                CHOOSE n \in 0..4 : Ascii[17 + n] = c]

\* template.format(args[1], args[2], ...): every "{n}" of the template is
\* replaced by the n-th argument (counted from 0); arguments are inserted
\* as they are and never rescanned.
RECURSIVE format(_, _)
format(t, args) ==
    LET braces == {i \in 1..Len(t) : t[i] = "{"}
    IN  IF braces = {} THEN t
        ELSE LET i == CHOOSE k \in braces : \A j \in braces : k <= j
             IN  SubSeq(t, 1, i - 1) \o args[DigitVal[t[i + 1]] + 1]
                   \o format(SubSeq(t, i + 3, Len(t)), args)

\* Variant: user and password change places.
ENTER_VM_format_swapped(vm, user, pw, cmd) ==
    format(ENTER_VM, <<vm, pw, user, cmd>>)

ENTER_VM_format(vm, user, pw, cmd) == format(ENTER_VM, <<vm, user, pw, cmd>>)

COPY_FILE_format(vm, user, pw, src, dst) ==
    format(COPY_FILE, <<vm, user, pw, src, dst>>)

(***************************************************************************)
(* Inputs and environment of the model.                                    *)
(***************************************************************************)
Commands ==
    { <<"d","i","r">>,
      <<"e","c","h","o"," ">> \o <<EAcute>> }

VmNames == { <<>>, <<"m","y","v","m">> }
Users == { <<"b","o","b">> }
Passwords == { <<"p","w">> }
BecomeKinds == { "none", "no_prompt", "prompt" }

PathA == <<"/","t","m","p","/","a">>
PathB == <<"/","t","m","p","/","b">>
PathMissing == <<"/","t","m","p","/","m","i","s","s","i","n","g">>
Paths == { PathA, PathB, PathMissing }

\* What shutil.which("powershell.exe") returns when it finds the shell.
WhichResult == <<"/","m","n","t","/","c","/","W","i","n","d","o","w","s","/","S","y",
      "s","t","e","m","3","2","/","W","i","n","d","o","w","s","P","o","w",
      "e","r","S","h","e","l","l","/","v","1",".","0","/","p","o","w","e",
      "r","s","h","e","l","l",".","e","x","e">>

\* The name used when the search path has no powershell.exe.
PowershellExe == <<"p","o","w","e","r","s","h","e","l","l",".","e","x","e">>

\* Prefix that "wslpath -w" puts before a path of the distribution.
WslPrefix == <<"\\","\\","w","s","l",".","l","o","c","a","l","h","o","s","t","\\",
      "U","b","u","n","t","u">>

\* Output of "wslpath -w p": the Windows form of p and a newline.
wslpath_w(p) ==
    WslPrefix \o [i \in 1..Len(p) |-> IF p[i] = "/" THEN "\\" ELSE p[i]]
        \o <<"\n">>

\* (returncode, stdout, stderr) of a child, as bytes.
ChildResults ==
    { <<0, to_bytes(<<"h","i","\n">>), <<>> >>,
      <<1, <<>>, to_bytes(<<"e","r","r","o","r","\n">>)>> }

\* subprocess.PIPE
PIPE == -1

\* Python's None where a descriptor is expected.
None == -2

\* Environment of one call: what the operating system answers.
\*   which     shutil.which finds powershell.exe on the search path
\*   fallback  a file named powershell.exe exists in the working directory
\*   pty_ok    pty.openpty() does not fail for a reason of its own
\*   spawn_ok  subprocess.Popen of the shell starts the child
\*   wsl       "ok": wslpath prints the translation, "fail": it prints
\*             nothing, "missing": Popen of wslpath raises
\*   child     what the shell child returns
DefaultEnv ==
    [which |-> TRUE, fallback |-> FALSE, pty_ok |-> TRUE, spawn_ok |-> TRUE,
     wsl |-> "ok", child |-> <<0, <<>>, <<>> >>]

NoArg == <<>>

(***************************************************************************)
(* State.                                                                  *)
(***************************************************************************)
VARIABLES
    _connected,           \* Connection._connected
    fds,                  \* descriptors open in the controller process
    files,                \* paths (bytes) that exist on the filesystem
    vm_name,              \* get_option("vm_name"); <<>> when not configured
    remote_user,          \* _play_context.remote_user
    password,             \* _play_context.password
    pipelining,           \* get_option("pipelining")
    become,               \* self.become: "none", or what expect_prompt() says
    base_ensures_connect, \* whether the parent class method connects first
    call                  \* the call the caller is looking at: its inputs and
                          \* its result; NoCall between two calls

vars == <<_connected, fds, files, vm_name, remote_user, password, pipelining,
          become, base_ensures_connect, call>>

config == <<vm_name, remote_user, password, pipelining, become,
            base_ensures_connect>>

(***************************************************************************)
(* Results of an operation.                                                *)
(***************************************************************************)
\* A call that has done nothing yet, in the state (conn, f, fs).
Result(conn, f, fs) ==
    [outcome |-> "returned", ret |-> <<>>, connected |-> conn, fds |-> f,
     files |-> fs, spawns |-> <<>>, copies |-> <<>>, closed |-> <<>>,
     stdin |-> None, master |-> None, established |-> FALSE]

Raise(r, error) == [r EXCEPT !.outcome = error]

\* One subprocess.Popen call.
Popen(cmd, args, shell, executable, stdin, started) ==
    [cmd |-> cmd, args |-> args, shell |-> shell, executable |-> executable,
     stdin |-> stdin, started |-> started]

Range(s) == {s[i] : i \in 1..Len(s)}

(***************************************************************************)
(* Connection._connect and Connection.close                                *)
(***************************************************************************)
\* Variant: the flag is flipped instead of set.
_connect_toggle(conn, f, fs) ==
    [Result(~conn, f, fs) EXCEPT !.established = TRUE]

_connect(conn, f, fs) ==
    IF ~conn
    THEN [Result(TRUE, f, fs) EXCEPT !.established = TRUE]
    ELSE Result(conn, f, fs)

close(conn, f, fs) == Result(FALSE, f, fs)

\* super().exec_command / put_file / fetch_file: the parent class belongs to
\* the host framework; its method either does nothing or connects first.
base_call(conn) ==
    IF base_ensures_connect /\ ~conn THEN _connect(conn, {}, {}).connected
    ELSE conn

(***************************************************************************)
(* Connection.exec_command                                                 *)
(***************************************************************************)
resolve_executable(env) ==
    IF env.which THEN WhichResult ELSE PowershellExe

\* Variant: the existence check is skipped.
executable_exists_unchecked(executable, env) == TRUE

executable_exists(executable, env) ==
    IF executable = WhichResult THEN env.which ELSE env.fallback

want_pty(sudoable) ==
    /\ sudoable
    /\ become # "none"
    /\ become = "prompt"
    /\ ~pipelining

\* Variant: a failed allocation leaves the child without a stdin pipe.
openpty_no_fallback(f, env) ==
    LET free == (0..(MaxFd - 1)) \ f
    IN  IF env.pty_ok /\ Cardinality(free) >= 2
        THEN LET m == CHOOSE x \in free : \A y \in free : x <= y
                 s == CHOOSE x \in free \ {m} : \A y \in free \ {m} : x <= y
             IN  [master |-> m, stdin |-> s, fds |-> f \cup {m, s}]
        ELSE [master |-> None, stdin |-> None, fds |-> f]

\* pty.openpty() inside try/except: on success the two lowest free
\* descriptors (master first), on failure master stays None and stdin PIPE.
openpty(f, env) ==
    LET free == (0..(MaxFd - 1)) \ f
    IN  IF env.pty_ok /\ Cardinality(free) >= 2
        THEN LET m == CHOOSE x \in free : \A y \in free : x <= y
                 s == CHOOSE x \in free \ {m} : \A y \in free \ {m} : x <= y
             IN  [master |-> m, stdin |-> s, fds |-> f \cup {m, s}]
        ELSE [master |-> None, stdin |-> PIPE, fds |-> f]

\* Variant: the command is wrapped whether or not a VM is configured.
wrap_command_always(cmd) ==
    to_bytes(ENTER_VM_format(vm_name, remote_user, password, to_text(cmd)))

\* if self.get_option("vm_name"): cmd = to_bytes(ENTER_VM.format(...))
wrap_command(cmd) ==
    IF vm_name # <<>>
    THEN to_bytes(ENTER_VM_format(vm_name, remote_user, password,
                                  to_text(cmd)))
    ELSE cmd

\* if master is not None: os.close(stdin)
close_after_spawn(master, stdin) ==
    IF master # None THEN <<stdin>> ELSE <<>>

\* if master: os.close(master)
close_after_exit(master) ==
    IF master # None /\ master # 0 THEN <<master>> ELSE <<>>

exec_body(conn, f, fs, cmd, sudoable, env) ==
    LET r0 == Result(conn, f, fs)
        executable == resolve_executable(env)
    IN  IF ~executable_exists(executable, env)
        THEN Raise(r0, "ExecutableNotFound")
        ELSE
        LET cmdb == to_bytes(cmd)
            p == IF want_pty(sudoable) THEN openpty(f, env)
                 ELSE [master |-> None, stdin |-> PIPE, fds |-> f]
            cmd2 == wrap_command(cmdb)
            sp == Popen(cmd2, <<>>, TRUE, executable, p.stdin, env.spawn_ok)
            r1 == [r0 EXCEPT !.fds = p.fds, !.stdin = p.stdin,
                             !.master = p.master, !.spawns = <<sp>>]
        IN  IF ~env.spawn_ok
            THEN Raise(r1, "SpawnError")
            ELSE
            LET c1 == close_after_spawn(p.master, p.stdin)
                c2 == close_after_exit(p.master)
            IN  [r1 EXCEPT !.closed = c1 \o c2,
                           !.fds = p.fds \ Range(c1 \o c2),
                           !.ret = env.child]

\* Variant: the call is refused on a session that is not connected.
exec_command_guarded(conn, f, fs, cmd, sudoable, env) ==
    IF ~conn
    THEN Raise(Result(conn, f, fs), "NotConnectedError")
    ELSE exec_body(conn, f, fs, cmd, sudoable, env)

exec_command(conn, f, fs, cmd, sudoable, env) ==
    exec_body(base_call(conn), f, fs, cmd, sudoable, env)

(***************************************************************************)
(* Connection.put_file and Connection.fetch_file                           *)
(***************************************************************************)
\* shutil.copyfile(src, dst) inside try/except, applied to the result r.
copyfile(r, src, dst) ==
    IF src \in r.files /\ src = dst
    THEN Raise(r, "SameFileError")
    ELSE IF src \notin r.files
    THEN Raise(r, "TransferIOError")
    ELSE [r EXCEPT !.files = r.files \cup {dst},
                   !.copies = <<(<<src, dst>>)>>]

\* Variant: the source is taken to exist.
source_exists_unchecked(in_path, fs) == TRUE

\* os.path.exists(to_bytes(in_path))
source_exists(in_path, fs) == to_bytes(in_path) \in fs

put_body(conn, f, fs, in_path, out_path, env) ==
    LET r0 == Result(conn, f, fs)
    IN  IF ~source_exists(in_path, fs)
        THEN Raise(r0, "SourceNotFound")
        ELSE
        LET sp1 == Popen(<<>>, <<<<"w","s","l","p","a","t","h">>, <<"-","w">>, in_path>>, FALSE, <<>>,
                         None, env.wsl # "missing")
            r1 == [r0 EXCEPT !.spawns = <<sp1>>]
            stdout == IF env.wsl = "ok" THEN wslpath_w(in_path) ELSE <<>>
        IN  IF env.wsl = "missing"
            THEN Raise(r1, "SpawnError")
            ELSE IF vm_name # <<>>
            THEN
              LET cmd == to_bytes(COPY_FILE_format(vm_name, remote_user,
                             password, rstrip_nl(stdout), out_path))
                  executable == resolve_executable(env)
                  started == executable_exists(executable, env)
                                 /\ env.spawn_ok
                  sp2 == Popen(cmd, <<>>, TRUE, executable, None, started)
                  r2 == [r1 EXCEPT !.spawns = <<sp1, sp2>>]
              IN  IF ~started THEN Raise(r2, "SpawnError") ELSE r2
            ELSE copyfile(r1, to_bytes(stdout), to_bytes(out_path))

put_file(conn, f, fs, in_path, out_path, env) ==
    put_body(base_call(conn), f, fs, in_path, out_path, env)

\* Variant: the two paths are handed over in the other order.
fetch_file_swapped(conn, f, fs, in_path, out_path, env) ==
    put_file(base_call(conn), f, fs, out_path, in_path, env)

fetch_file(conn, f, fs, in_path, out_path, env) ==
    put_file(base_call(conn), f, fs, in_path, out_path, env)

(***************************************************************************)
(* The state machine.                                                      *)
(***************************************************************************)
Record(op, a, b, sudoable, env, r) ==
    [op |-> op, a |-> a, b |-> b, sudoable |-> sudoable, env |-> env,
     pre_connected |-> _connected, pre_fds |-> fds, pre_files |-> files,
     res |-> r]

\* No call: the caller has taken the result of the previous one.
NoCall ==
    [op |-> "none", a |-> NoArg, b |-> NoArg, sudoable |-> FALSE,
     env |-> DefaultEnv, pre_connected |-> FALSE, pre_fds |-> {},
     pre_files |-> {}, res |-> Result(FALSE, {}, {})]

\* The caller runs one operation to its end (calls are serialized) and is
\* left with its result r.
Apply(op, a, b, sudoable, env, r) ==
    /\ call = NoCall
    /\ _connected' = r.connected
    /\ fds' = r.fds
    /\ files' = r.files
    /\ call' = Record(op, a, b, sudoable, env, r)
    /\ UNCHANGED config

\* The file named like the output of wslpath, as a path of the controller.
TranslatedA == to_bytes(wslpath_w(PathA))

Init ==
    /\ _connected = FALSE
    /\ fds \in { {0, 1, 2}, {1, 2} }
    /\ files \in { {to_bytes(PathA)}, {to_bytes(PathA), TranslatedA} }
    /\ vm_name \in VmNames
    /\ remote_user \in Users
    /\ password \in Passwords
    /\ pipelining \in BOOLEAN
    /\ become \in BecomeKinds
    /\ base_ensures_connect \in BOOLEAN
    /\ call = NoCall

Connect ==
    Apply("connect", NoArg, NoArg, FALSE, DefaultEnv,
          _connect(_connected, fds, files))

Close ==
    Apply("close", NoArg, NoArg, FALSE, DefaultEnv,
          close(_connected, fds, files))

\* The bare name matters only when the search path has no powershell.exe.
ExecEnvs ==
    { e \in { [DefaultEnv EXCEPT !.which = w, !.fallback = fb,
                                 !.pty_ok = po, !.spawn_ok = so,
                                 !.child = ch] :
                w \in BOOLEAN, fb \in BOOLEAN, po \in BOOLEAN,
                so \in BOOLEAN, ch \in ChildResults } :
        e.which => ~e.fallback }

TransferEnvs ==
    { [DefaultEnv EXCEPT !.spawn_ok = so, !.wsl = ws] :
        so \in BOOLEAN, ws \in {"ok", "fail", "missing"} }

ExecCommand ==
    \E cmd \in Commands, sudoable \in BOOLEAN, env \in ExecEnvs :
        Apply("exec", cmd, NoArg, sudoable, env,
              exec_command(_connected, fds, files, cmd, sudoable, env))

OutPaths == { PathA, PathB, wslpath_w(PathA) }

PutFile ==
    \E in_path \in Paths, out_path \in OutPaths, env \in TransferEnvs :
        Apply("put", in_path, out_path, FALSE, env,
              put_file(_connected, fds, files, in_path, out_path, env))

FetchFile ==
    \E in_path \in Paths, out_path \in OutPaths, env \in TransferEnvs :
        Apply("fetch", in_path, out_path, FALSE, env,
              fetch_file(_connected, fds, files, in_path, out_path, env))

\* The caller takes the result and is free to make the next call.
Return ==
    /\ call # NoCall
    /\ call' = NoCall
    /\ UNCHANGED <<_connected, fds, files>>
    /\ UNCHANGED config

Next ==
    \/ Connect
    \/ Close
    \/ ExecCommand
    \/ PutFile
    \/ FetchFile
    \/ Return

Spec == Init /\ [][Next]_vars

(***************************************************************************)
(* Properties.                                                             *)
(***************************************************************************)
res == call.res

SessionOps == {"exec", "put", "fetch"}

\* The shell is found: on the search path, or under its bare name.
ExeFound == call.env.which \/ call.env.fallback

\* The call asks for a pseudo-terminal (it got as far as asking).
PtyWanted ==
    /\ call.op = "exec"
    /\ ExeFound
    /\ call.sudoable
    /\ become = "prompt"
    /\ ~pipelining

\* The allocation succeeds: the system grants it and two descriptors are free.
PtyGranted ==
    /\ call.env.pty_ok
    /\ Cardinality((0..(MaxFd - 1)) \ call.pre_fds) >= 2

\* Least position i >= from where x occurs in s, 0 when there is none.
FindFrom(s, x, from) ==
    LET hits == {i \in from..(Len(s) - Len(x) + 1) :
                    /\ s[i] = x[1]
                    /\ SubSeq(s, i, i + Len(x) - 1) = x}
    IN  IF from = 0 \/ hits = {} THEN 0
        ELSE CHOOSE i \in hits : \A j \in hits : i <= j

\* The non-empty sequences xs[1], xs[2], ... occur in s one after the other.
RECURSIVE InOrderFrom(_, _, _)
InOrderFrom(s, xs, from) ==
    IF xs = <<>> THEN TRUE
    ELSE LET i == FindFrom(s, Head(xs), from)
         IN  i # 0 /\ InOrderFrom(s, Tail(xs), i + Len(Head(xs)))

InOrder(s, xs) == InOrderFrom(s, xs, 1)

\* C1 (as stated): executeCommand, putFile and fetchFile called on a
\* Disconnected session fail with NotConnectedError, spawn no process and
\* copy no file.
C1_FailsWhenDisconnected ==
    (call.op \in SessionOps /\ ~call.pre_connected) =>
        /\ res.outcome = "NotConnectedError"
        /\ res.spawns = <<>>
        /\ res.copies = <<>>

\* The same call on the same state, but with the session connected.
WhenConnected ==
    CASE call.op = "exec" ->
            exec_command(TRUE, call.pre_fds, call.pre_files, call.a,
                         call.sudoable, call.env)
      [] call.op = "put" ->
            put_file(TRUE, call.pre_fds, call.pre_files, call.a, call.b,
                     call.env)
      [] call.op = "fetch" ->
            fetch_file(TRUE, call.pre_fds, call.pre_files, call.a, call.b,
                       call.env)

\* C1 (amended): connect leaves the session Connected and close leaves it
\* Disconnected, but executeCommand, putFile and fetchFile do not look at
\* the session state: called on a Disconnected session they never fail with
\* NotConnectedError, and they have the outcome, the spawned processes and
\* the file copy of the same call on a Connected session.
C1_NoStateCheck ==
    /\ call.op = "connect" => _connected
    /\ call.op = "close" => ~_connected
    /\ (call.op \in SessionOps /\ ~call.pre_connected) =>
          /\ res.outcome # "NotConnectedError"
          /\ res.outcome = WhenConnected.outcome
          /\ res.ret = WhenConnected.ret
          /\ res.spawns = WhenConnected.spawns
          /\ res.copies = WhenConnected.copies
          /\ res.files = WhenConnected.files

C1_Witness ==
    /\ call.op = "exec"
    /\ ~call.pre_connected
    /\ res.outcome = "returned"
    /\ Len(res.spawns) = 1
    /\ res.spawns[1].started

\* C2: with no vm_name configured and the shell found, executeCommand(C)
\* calls the spawn exactly once (no retry) and the process argument is C
\* itself, as bytes, not wrapped in the session script; when the call
\* returns, that one child was started.
C2_DirectCommand ==
    (call.op = "exec" /\ vm_name = <<>> /\ ExeFound) =>
        /\ Len(res.spawns) = 1
        /\ res.spawns[1].cmd = to_bytes(call.a)
        /\ res.spawns[1].shell
        /\ res.spawns[1].args = <<>>
        /\ res.outcome = "returned" => res.spawns[1].started
        /\ res.outcome \in {"returned", "SpawnError"}

C2_Witness ==
    /\ call.op = "exec"
    /\ vm_name = <<>>
    /\ ExeFound
    /\ res.outcome = "returned"
    /\ Len(res.spawns) = 1
    /\ res.spawns[1].cmd = to_bytes(call.a)

\* C3 (as stated): with a VM configured the spawned script contains the VM
\* name, the user, the password and the command in that order.
C3_OrderVmUserPasswordCommand ==
    (call.op = "exec" /\ vm_name # <<>> /\ ExeFound) =>
        /\ Len(res.spawns) = 1
        /\ InOrder(res.spawns[1].cmd,
                   <<to_bytes(vm_name), to_bytes(remote_user),
                     to_bytes(password), to_bytes(call.a)>>)

\* C3 (amended): with a VM configured, executeCommand(C) spawns one process
\* whose argument is the composed session script, and the script contains
\* the password, the user, the command and the VM name verbatim, in that
\* order (password before user before command before VM name).
C3_OrderPasswordUserCommandVm ==
    (call.op = "exec" /\ vm_name # <<>> /\ ExeFound) =>
        /\ Len(res.spawns) = 1
        /\ res.spawns[1].cmd # to_bytes(call.a)
        /\ InOrder(res.spawns[1].cmd,
                   <<to_bytes(password), to_bytes(remote_user),
                     to_bytes(call.a), to_bytes(vm_name)>>)

C3_Witness ==
    /\ call.op = "exec"
    /\ vm_name # <<>>
    /\ ExeFound
    /\ res.outcome = "returned"
    /\ Len(res.spawns) = 1
    /\ res.spawns[1].started
    /\ ~InOrder(res.spawns[1].cmd, <<to_bytes(vm_name), to_bytes(call.a)>>)
    /\ InOrder(res.spawns[1].cmd, <<to_bytes(call.a), to_bytes(vm_name)>>)

\* C4: putFile with a source that does not exist fails with SourceNotFound
\* before anything is spawned or copied, with or without a VM configured.
C4_SourceNotFound ==
    (call.op = "put" /\ to_bytes(call.a) \notin call.pre_files) =>
        /\ res.outcome = "SourceNotFound"
        /\ res.spawns = <<>>
        /\ res.copies = <<>>
        /\ res.files = call.pre_files

C4_Witness ==
    /\ call.op = "put"
    /\ call.a = PathMissing
    /\ vm_name # <<>>
    /\ res.outcome = "SourceNotFound"

\* C5: on the direct-copy path putFile(p, p) with p existing fails with
\* SameFileError.
C5_SameFileError ==
    (/\ call.op = "put"
     /\ vm_name = <<>>
     /\ call.a = call.b
     /\ to_bytes(call.a) \in call.pre_files) =>
        res.outcome = "SameFileError"

\* C6: fetchFile(a, b) has the spawned processes, the file copy, the outcome
\* and the resulting state of putFile(a, b) run from the same state.
C6_FetchIsPut ==
    call.op = "fetch" =>
        LET r == put_file(call.pre_connected, call.pre_fds, call.pre_files,
                          call.a, call.b, call.env)
        IN  /\ res.spawns = r.spawns
            /\ res.copies = r.copies
            /\ res.outcome = r.outcome
            /\ res.files = r.files
            /\ res.connected = r.connected
            /\ res.fds = r.fds

C6_Witness ==
    /\ call.op = "fetch"
    /\ call.a # call.b
    /\ to_bytes(call.a) \in call.pre_files
    /\ \/ Len(res.spawns) = 2
       \/ res.copies # <<>>

\* C7: when executeCommand asks for a pseudo-terminal and the allocation
\* fails, the failure is not raised: the child gets a plain pipe as stdin,
\* the spawn is made, no pty descriptor is closed, and the call returns the
\* child's (exitCode, stdout, stderr); only a refused spawn raises, with
\* the spawn's own error.
C7_PtyFailureNotRaised ==
    (PtyWanted /\ ~PtyGranted) =>
        /\ res.master = None
        /\ res.stdin = PIPE
        /\ Len(res.spawns) = 1
        /\ res.spawns[1].stdin = PIPE
        /\ res.closed = <<>>
        /\ res.fds = call.pre_fds
        /\ res.outcome \in {"returned", "SpawnError"}
        /\ call.env.spawn_ok =>
              /\ res.outcome = "returned"
              /\ res.ret = call.env.child
              /\ Len(res.ret) = 3

C7_Witness ==
    /\ PtyWanted
    /\ ~call.env.pty_ok
    /\ res.outcome = "returned"
    /\ res.spawns[1].stdin = PIPE

\* C8: executeCommand fails with ExecutableNotFound exactly when the
\* resolved shell does not exist, and then nothing is spawned and no
\* pseudo-terminal is allocated.
C8_ExecutableNotFound ==
    call.op = "exec" =>
        /\ res.outcome = "ExecutableNotFound" <=> ~ExeFound
        /\ ~ExeFound =>
              /\ res.spawns = <<>>
              /\ res.master = None
              /\ res.fds = call.pre_fds
              /\ res.closed = <<>>

C8_Witness ==
    /\ call.op = "exec"
    /\ ~ExeFound
    /\ call.sudoable /\ become = "prompt" /\ ~pipelining /\ call.env.pty_ok
    /\ res.outcome = "ExecutableNotFound"

\* C9: connect() always leaves the session active and touches nothing else;
\* only a connect on a Disconnected session establishes the connection, a
\* connect on a Connected session changes nothing.
C9_ConnectIdempotent ==
    call.op = "connect" =>
        /\ _connected
        /\ res.established = ~call.pre_connected
        /\ fds = call.pre_fds
        /\ files = call.pre_files
        /\ res.spawns = <<>>
        /\ res.copies = <<>>
        /\ res.outcome = "returned"

C9_Witness ==
    /\ call.op = "connect"
    /\ call.pre_connected
    /\ _connected
    /\ ~res.established

\* C10: no executeCommand call, returned or raised, leaves a descriptor of
\* the pseudo-terminal it allocated open.
C10_PtyReleased ==
    (call.op = "exec" /\ res.master # None) =>
        /\ res.master \notin fds
        /\ res.stdin \notin fds

=============================================================================
